---- MODULE Spec2Model ----
(***************************************************************************)
(* Model of Src/visualize.py of d6t_32l_01a: the UART frame parser         *)
(* parse_uart_data, the renderer visualize_heatmap and the module's main   *)
(* loop with its exception handlers.                                       *)
(*                                                                         *)
(* Text is modelled by its structure.  A decimal token is the triple       *)
(* (sign, integer digits, fraction digits); a line is a record naming its  *)
(* layout, the tokens it carries and its length in characters.  The three  *)
(* regular expressions and float() are operators on that structure.  A     *)
(* number is held as an integer count of hundredths.                       *)
(***************************************************************************)
EXTENDS Integers, Sequences, FiniteSets, TLC

\* ------------------------------------------------------------------------
\* Program constants
\* ------------------------------------------------------------------------
TIMEOUT == 1
PARSE_TIMEOUT == 10
ROWS == 32
COLS == 32
BUFFER_LIMIT == 10000

\* ------------------------------------------------------------------------
\* Bounds of the model
\* ------------------------------------------------------------------------
\* parse_uart_data is called at most MaxCalls times by the main loop.
MaxCalls == 2
\* The clock is seen to advance in steps of ClockStep seconds.
ClockStep == 5

\* Python's None, and a value that is not None.
None == << >>
Some(x) == << x >>
Val(o) == o[1]

\* ------------------------------------------------------------------------
\* Decimal tokens and float()
\* ------------------------------------------------------------------------
Tok(neg, ip, fd) == [neg |-> neg, ip |-> ip, fd |-> fd]

NumDigits(n) == IF n < 10 THEN 1 ELSE IF n < 100 THEN 2 ELSE 3

\* Number of characters of the token's text: "-"? digits ("." digits)?
TokLen(t) ==
    (IF t.neg THEN 1 ELSE 0) + NumDigits(t.ip)
        + (IF Len(t.fd) = 0 THEN 0 ELSE 1 + Len(t.fd))

\* The token has the shape -?\d+\.\d+ the three patterns ask for.
IsDecimal(t) == Len(t.fd) >= 1

\* Mutant of Float: the sign is lost.
FloatUnsigned(t) ==
    100 * t.ip + (IF Len(t.fd) = 0 THEN 0
                  ELSE IF Len(t.fd) = 1 THEN 10 * t.fd[1]
                  ELSE 10 * t.fd[1] + t.fd[2])

\* float(text), in hundredths.  Tokens carry at most two fraction digits.
Float(t) ==
    LET frac == IF Len(t.fd) = 0 THEN 0
                ELSE IF Len(t.fd) = 1 THEN 10 * t.fd[1]
                ELSE 10 * t.fd[1] + t.fd[2]
        mag == 100 * t.ip + frac
    IN  IF t.neg THEN 0 - mag ELSE mag

\* format(x, '.1f'): x in hundredths, the result in tenths, rounded to the
\* nearest tenth (no token of the model lies halfway between two tenths).
Format1(x) ==
    IF x >= 0 THEN (x + 5) \div 10 ELSE 0 - ((5 - x) \div 10)

\* ------------------------------------------------------------------------
\* Lines of text
\* ------------------------------------------------------------------------
\* Token c (from 0) of row `row` of transmitted frame `fid`.
GridTok(fid, row, c) ==
    Tok(c = row, (fid + row + c) % 10, << (3 * row + c + fid) % 10 >>)

RECURSIVE SumTokLen(_, _, _, _)
SumTokLen(fid, row, n, acc) ==
    IF n = 0 THEN acc
    ELSE SumTokLen(fid, row, n - 1, acc + TokLen(GridTok(fid, row, n - 1)))

NoTok == Tok(FALSE, 0, << >>)

\* "PTAT: <tok> C, PEC: 0x<pec hex digits>"
PtatLine(t, pec) ==
    [kind |-> "ptat", tok |-> t, pec |-> pec, fid |-> 0, row |-> 0, n |-> 1,
     sep |-> 1, len |-> 6 + TokLen(t) + 11 + pec]

\* "Avg Pixel Temp: <tok> C"
AvgLine(t) ==
    [kind |-> "avg", tok |-> t, pec |-> 0, fid |-> 0, row |-> 0, n |-> 1,
     sep |-> 1, len |-> 16 + TokLen(t) + 2]

\* The first n tokens of row `row` of frame `fid`, `sep` spaces apart.
GridLine(fid, row, n, sep) ==
    [kind |-> "grid", tok |-> NoTok, pec |-> 0, fid |-> fid, row |-> row,
     n |-> n, sep |-> sep, len |-> SumTokLen(fid, row, n, 0) + (n - 1) * sep]

\* k characters that none of the three patterns matches.
JunkLine(k) ==
    [kind |-> "junk", tok |-> NoTok, pec |-> 0, fid |-> 0, row |-> 0, n |-> 0,
     sep |-> 1, len |-> k]

\* ------------------------------------------------------------------------
\* The three regular expressions
\* ------------------------------------------------------------------------
\* re.search(r'PTAT: (-?\d+\.\d+) C, PEC: 0x[0-9A-Fa-f]{2}') finds a match
\* in this line: a decimal, and at least two hex digits after "0x".
PtatMatches(l) == l.kind = "ptat" /\ IsDecimal(l.tok) /\ l.pec >= 2

\* re.search(r'Avg Pixel Temp: (-?\d+\.\d+) C') finds a match in this line.
AvgMatches(l) == l.kind = "avg" /\ IsDecimal(l.tok)

\* r'^(-?\d+\.\d+(?: -?\d+\.\d+){31})$' matches the whole line: 32 decimals
\* with exactly one space between neighbours.
GridMatches(l) == l.kind = "grid" /\ l.n = 1 + 31 /\ l.sep = 1

\* Index of the first line of buf, from line i on, in which the PTAT
\* pattern (kind "ptat") or the Avg pattern (kind "avg") finds a match;
\* 0 when there is none.
RECURSIVE FirstMatch(_, _, _)
FirstMatch(kind, buf, i) ==
    IF i > Len(buf) THEN 0
    ELSE IF (IF kind = "ptat" THEN PtatMatches(buf[i]) ELSE AvgMatches(buf[i]))
         THEN i
         ELSE FirstMatch(kind, buf, i + 1)

\* Mutant of ptat_match: the last match for the first.
ptat_match_last(buf) ==
    IF \E i \in 1..Len(buf) : PtatMatches(buf[i])
    THEN CHOOSE i \in 1..Len(buf) :
             /\ PtatMatches(buf[i])
             /\ \A j \in (i + 1)..Len(buf) : ~PtatMatches(buf[j])
    ELSE 0

\* re.search(...) on the buffer: the first match, as the matching line's
\* index (0: no match).
ptat_match(buf) == FirstMatch("ptat", buf, 1)
avg_match(buf) == FirstMatch("avg", buf, 1)

\* re.findall(..., re.MULTILINE): the matching lines in buffer order.
grid_lines(buf) == SelectSeq(buf, GridMatches)

\* len(buffer): every line is followed by '\n'.
RECURSIVE BufLenFrom(_, _)
BufLenFrom(buf, i) ==
    IF i > Len(buf) THEN 0 ELSE buf[i].len + 1 + BufLenFrom(buf, i + 1)

BufLen(buf) == BufLenFrom(buf, 1)

\* list(map(float, line.split())): the numbers of a grid line.
row_data(l) == [c \in 1..l.n |-> Float(GridTok(l.fid, l.row, c - 1))]

\* np.zeros((32, 32))
Zeros == [r \in 0..(ROWS - 1) |-> [c \in 1..COLS |-> 0]]

\* ------------------------------------------------------------------------
\* The serial stream: what the sensor sends
\* ------------------------------------------------------------------------
\* The sensor sends at most MaxFrames frames, then falls silent or sends
\* noise for ever.
MaxFrames == 3

Shapes == {"good", "badptat", "badavg", "fill", "edge", "over", "cutrow"}

\* A stream is one shape per frame: every frame well formed, or exactly one
\* frame of another shape.
Scenarios ==
    { s \in [1..MaxFrames -> Shapes] :
        \E i \in 1..MaxFrames : \A j \in 1..MaxFrames : j # i => s[j] = "good" }

\* The parser's first read meets the first frame at one of these lines.
StartOffsets == {0, 2, 20}

PtatTok(fid) == Tok(fid % 2 = 1, 20 + fid, << 3 >>)
AvgTok(fid) == Tok(FALSE, 24, << 8, fid % 5 >>)

\* A line long enough that the last grid line of the frame that follows it
\* takes the buffer past BUFFER_LIMIT.
FillLen == BUFFER_LIMIT - 4100

\* The lines a frame of this shape sends before its grid lines.
Header(shape, fid) ==
    LET p == PtatLine(PtatTok(fid), 2)
        a == AvgLine(AvgTok(fid))
    IN  CASE shape = "badptat" -> << PtatLine(PtatTok(fid), 1), a >>
          [] shape = "badavg" -> << p, AvgLine(Tok(FALSE, 24, << >>)) >>
          [] shape = "fill" -> << JunkLine(FillLen), p, a >>
          [] shape = "edge" -> << JunkLine(BUFFER_LIMIT - 1), p, a >>
          [] shape = "over" -> << JunkLine(BUFFER_LIMIT), p, a >>
          [] OTHER -> << p, a >>

\* Grid line r of a frame: a "cutrow" frame loses the last number of one
\* line and sends another with two spaces between the numbers.
RowLine(shape, fid, r) ==
    IF shape = "cutrow" /\ r = 5 THEN GridLine(fid, r, COLS - 1, 1)
    ELSE IF shape = "cutrow" /\ r = 6 THEN GridLine(fid, r, COLS, 2)
    ELSE GridLine(fid, r, COLS, 1)

FrameLen(shape) == Len(Header(shape, 0)) + ROWS

\* Line `pos` (from 0) of frame `fid`.
LineAt(shape, fid, pos) ==
    LET h == Header(shape, fid)
    IN  IF pos < Len(h) THEN h[pos + 1] ELSE RowLine(shape, fid, pos - Len(h))

\* After the last frame a noisy sensor sends, in turn, a line of
\* BUFFER_LIMIT characters and one a character shorter.
NoiseLine(k) == JunkLine(BUFFER_LIMIT - k)

NoData == [ptat |-> None, avg_temp |-> None, pixels |-> None]

\* What strip() leaves of a read that timed out, or of white space or
\* undecodable bytes: the empty text.
Blank == JunkLine(0)

VARIABLES
    pc,           \* where the main program is
    ser_defined,  \* 'ser' in locals()
    port_open,    \* the serial port is open
    close_calls,  \* calls of ser.close()
    fig_open,     \* the plot windows are open
    im,           \* the main loop's image handle
    images,       \* images created by ax.imshow
    colorbars,    \* colorbars created by fig.colorbar
    shown,        \* what the image shows: data, color limits, title
    renders,      \* calls of visualize_heatmap
    frame,        \* ptat, avg_temp, pixels of the main loop (line 93)
    calls,        \* calls of parse_uart_data
    ptat, avg_temp, pixels, buffer, start_time,  \* parse_uart_data's locals
    line,         \* parse_uart_data's local: the last line read, stripped
    now,          \* time.time()
    scen, sframe, spos, tail,                    \* the stream
    frames_got,   \* calls of parse_uart_data that returned a frame
    grid_read,    \* grid lines read by the current call
    call_from,    \* where in the stream the current call began to read
    was_reset     \* the current call has reset its buffer

mainVars == << ser_defined, port_open, close_calls, fig_open >>
plotVars == << im, images, colorbars, shown, renders >>
parseVars == << ptat, avg_temp, pixels, buffer, start_time, line >>
streamVars == << scen, sframe, spos, tail >>
histVars == << frames_got, grid_read, call_from, was_reset >>
vars == << pc, mainVars, plotVars, frame, calls, parseVars, now, streamVars,
           histVars >>

NoShow == [data |-> None, clim |-> None, title |-> None]

Init ==
    /\ pc = "start"
    /\ ser_defined = FALSE /\ port_open = FALSE /\ close_calls = 0
    /\ fig_open = FALSE
    /\ im = None /\ images = 0 /\ colorbars = 0 /\ shown = NoShow
    /\ renders = 0
    /\ frame = NoData /\ calls = 0
    /\ ptat = None /\ avg_temp = None /\ pixels = Zeros /\ buffer = << >>
    /\ start_time = 0
    /\ line = Blank
    /\ now = 0
    /\ scen \in Scenarios
    /\ sframe = 1
    /\ spos \in StartOffsets
    /\ tail = "silent"
    /\ frames_got = 0 /\ grid_read = 0 /\ was_reset = FALSE
    /\ call_from = << 1, 0 >>

\* ------------------------------------------------------------------------
\* The stream as the reads see it
\* ------------------------------------------------------------------------
StreamEnded == sframe > MaxFrames

\* The line the next read returns.
CurLine ==
    IF StreamEnded THEN NoiseLine(spos) ELSE LineAt(scen[sframe], sframe, spos)

\* The sensor is between two frames, or has sent its last one.
Paused == StreamEnded \/ spos = 0

Advance ==
    /\ scen' = scen
    /\ IF StreamEnded
       THEN /\ spos' = 1 - spos
            /\ UNCHANGED << sframe, tail >>
       ELSE IF spos + 1 < FrameLen(scen[sframe])
            THEN /\ spos' = spos + 1
                 /\ UNCHANGED << sframe, tail >>
            ELSE /\ sframe' = sframe + 1
                 /\ spos' = 0
                 /\ IF sframe = MaxFrames
                    THEN tail' \in {"silent", "noise"}
                    ELSE tail' = tail

\* ------------------------------------------------------------------------
\* The main program: try / except / finally (lines 84-109)
\* ------------------------------------------------------------------------
\* Mutant of Finally: ser.close() is called whether or not 'ser' is bound.
FinallyAlwaysClose ==
    /\ close_calls' = close_calls + 1
    /\ port_open' = FALSE
    /\ fig_open' = FALSE
    /\ ser_defined' = ser_defined
    /\ pc' = "exited"

\* finally: close the port if 'ser' is bound, close the plots; the process
\* ends.
Finally ==
    /\ close_calls' = IF ser_defined THEN close_calls + 1 ELSE close_calls
    /\ port_open' = IF ser_defined THEN FALSE ELSE port_open
    /\ fig_open' = FALSE
    /\ ser_defined' = ser_defined
    /\ pc' = "exited"

\* serial.Serial(...) succeeds; plt.ion(), plt.subplots(), im = None.
OpenPort ==
    /\ pc = "start"
    /\ ser_defined' = TRUE
    /\ port_open' = TRUE
    /\ fig_open' = TRUE
    /\ im' = None
    /\ pc' = "loop"
    /\ UNCHANGED << close_calls, images, colorbars, shown, renders, frame,
                    calls, parseVars, now, streamVars, histVars >>

\* serial.Serial(...) raises SerialException: 'ser' is never bound.
OpenFail ==
    /\ pc = "start"
    /\ Finally
    /\ UNCHANGED << plotVars, frame, calls, parseVars, now, streamVars,
                    histVars >>

\* KeyboardInterrupt anywhere inside the try block.
Interrupt ==
    /\ pc \in {"start", "loop", "parse", "got", "sleep"}
    /\ Finally
    /\ UNCHANGED << plotVars, frame, calls, parseVars, now, streamVars,
                    histVars >>

\* ------------------------------------------------------------------------
\* parse_uart_data (lines 13-62)
\* ------------------------------------------------------------------------
\* The loop condition of line 24.
InTime == now - start_time < PARSE_TIMEOUT

\* Mutant of CallParse: ptat and avg_temp outlive the call.
CallParseKeepsScalars ==
    /\ pc = "loop"
    /\ calls < MaxCalls
    /\ calls' = calls + 1
    /\ pixels' = Zeros
    /\ buffer' = << >>
    /\ start_time' = now
    /\ line' = Blank
    /\ grid_read' = 0 /\ was_reset' = FALSE /\ frames_got' = frames_got
    /\ call_from' = << sframe, spos >>
    /\ pc' = "parse"
    /\ UNCHANGED << mainVars, plotVars, frame, ptat, avg_temp, now,
                    streamVars >>

\* Line 93 calls parse_uart_data; lines 18-22 set up its locals.
CallParse ==
    /\ pc = "loop"
    /\ calls < MaxCalls
    /\ calls' = calls + 1
    /\ ptat' = None
    /\ avg_temp' = None
    /\ pixels' = Zeros
    /\ buffer' = << >>
    /\ start_time' = now
    /\ line' = Blank
    /\ grid_read' = 0 /\ was_reset' = FALSE /\ frames_got' = frames_got
    /\ call_from' = << sframe, spos >>
    /\ pc' = "parse"
    /\ UNCHANGED << mainVars, plotVars, frame, now, streamVars >>

\* float(text) raises ValueError: never, for a text of digits, an optional
\* sign and an optional fraction.  The handler of lines 51-54 is modelled
\* below all the same; no state of the model enters it.
FloatRaises(t) == FALSE

\* The first row (from 0) of the 32 whose conversion raises; ROWS if none.
RECURSIVE FirstBadRow(_, _)
FirstBadRow(gl, r) ==
    IF r = ROWS THEN ROWS
    ELSE IF \E c \in 0..(gl[r + 1].n - 1) :
               FloatRaises(GridTok(gl[r + 1].fid, gl[r + 1].row, c))
         THEN r
         ELSE FirstBadRow(gl, r + 1)

\* Mutant of FillRows: the last row is not written.
FillRowsButLast(px, gl, upto) ==
    [r \in 0..(ROWS - 1) |->
        IF r < upto - 1 /\ Len(row_data(gl[r + 1])) = COLS
        THEN row_data(gl[r + 1])
        ELSE px[r]]

\* Lines 46-49 for the rows before `upto`: row r of pixels becomes the
\* numbers of grid line r when there are 32 of them.
FillRows(px, gl, upto) ==
    [r \in 0..(ROWS - 1) |->
        IF r < upto /\ Len(row_data(gl[r + 1])) = COLS
        THEN row_data(gl[r + 1])
        ELSE px[r]]

\* Mutant of Complete: ptat is not asked for.
CompleteNoPtat(p, a, gl) == a # None /\ Len(gl) >= 32

\* Lines 42 and 44: both scalars are known and 32 grid lines are there.
Complete(p, a, gl) == a # None /\ p # None /\ Len(gl) >= 32

\* Mutant of Overflow: the buffer is never found too long.
OverflowNever(buf) == FALSE

\* Mutant of Overflow: >= for >.
OverflowAtLimit(buf) == BufLen(buf) >= BUFFER_LIMIT

\* Line 57.
Overflow(buf) == BufLen(buf) > BUFFER_LIMIT

\* Mutant of Iterate: the size test of line 57 comes before the test for a
\* complete frame of line 42.
IterateOverflowFirst(l) ==
    LET buf1 == buffer \o << l >>
        pm == ptat_match(buf1)
        am == avg_match(buf1)
        ptat1 == IF pm # 0 THEN Some(Float(buf1[pm].tok)) ELSE ptat
        avg1 == IF am # 0 THEN Some(Float(buf1[am].tok)) ELSE avg_temp
        gl == grid_lines(buf1)
    IN  /\ ptat' = ptat1
        /\ avg_temp' = avg1
        /\ line' = l
        /\ call_from' = call_from
        /\ grid_read' = IF GridMatches(l) THEN grid_read + 1 ELSE grid_read
        /\ IF BufLen(buf1) > BUFFER_LIMIT
           THEN /\ buffer' = << >> /\ was_reset' = TRUE
                /\ UNCHANGED << pixels, frame, pc, frames_got >>
           ELSE IF ptat1 # None /\ avg1 # None /\ Len(gl) >= ROWS
           THEN /\ pixels' = FillRows(pixels, gl, ROWS)
                /\ buffer' = buf1
                /\ frame' = [ptat |-> ptat1, avg_temp |-> avg1,
                             pixels |-> pixels']
                /\ was_reset' = was_reset
                /\ frames_got' = frames_got + 1
                /\ pc' = "got"
           ELSE /\ buffer' = buf1 /\ was_reset' = was_reset
                /\ UNCHANGED << pixels, frame, pc, frames_got >>

\* One pass of the loop body (lines 29-59) with a non-empty line.
Iterate(l) ==
    LET buf1 == buffer \o << l >>
        pm == ptat_match(buf1)
        am == avg_match(buf1)
        ptat1 == IF pm # 0 THEN Some(Float(buf1[pm].tok)) ELSE ptat
        avg1 == IF am # 0 THEN Some(Float(buf1[am].tok)) ELSE avg_temp
        gl == grid_lines(buf1)
        bad == FirstBadRow(gl, 0)
    IN  /\ ptat' = ptat1
        /\ avg_temp' = avg1
        /\ line' = l
        /\ call_from' = call_from
        /\ grid_read' = IF GridMatches(l) THEN grid_read + 1 ELSE grid_read
        /\ IF Complete(ptat1, avg1, gl)
           THEN IF bad = ROWS
                THEN \* line 50: return ptat, avg_temp, pixels
                     /\ pixels' = FillRows(pixels, gl, ROWS)
                     /\ buffer' = buf1
                     /\ frame' = [ptat |-> ptat1, avg_temp |-> avg1,
                                  pixels |-> pixels']
                     /\ was_reset' = was_reset
                     /\ frames_got' = frames_got + 1
                     /\ pc' = "got"
                ELSE \* lines 51-54: except ValueError
                     /\ pixels' = FillRows(pixels, gl, bad)
                     /\ buffer' = << >>
                     /\ was_reset' = TRUE
                     /\ UNCHANGED << frame, pc, frames_got >>
           ELSE \* lines 57-59
                /\ IF Overflow(buf1)
                   THEN buffer' = << >> /\ was_reset' = TRUE
                   ELSE buffer' = buf1 /\ was_reset' = was_reset
                /\ UNCHANGED << pixels, frame, pc, frames_got >>

\* Line 25: ser.readline() takes the sensor's next line off the stream.
ReadLine ==
    /\ pc = "parse"
    /\ InTime
    /\ ~StreamEnded \/ tail = "noise"
    /\ Advance

\* A pass of the loop that reads a non-empty line.
ReadData ==
    /\ ReadLine
    /\ Iterate(CurLine)
    /\ UNCHANGED << mainVars, plotVars, calls, start_time, now >>

\* Mutant of ReadBlank: the empty line and its newline go into the buffer.
ReadBlankAppends ==
    /\ pc = "parse"
    /\ InTime
    /\ Paused
    /\ line' = Blank
    /\ buffer' = buffer \o << Blank >>
    /\ UNCHANGED << pc, mainVars, plotVars, frame, calls, ptat, avg_temp,
                    pixels, start_time, now, streamVars, histVars >>

\* ser.readline() returns nothing, or only white space or undecodable
\* bytes, while the sensor sends no line: lines 25-27.
ReadBlank ==
    /\ pc = "parse"
    /\ InTime
    /\ Paused
    /\ line' = Blank
    /\ UNCHANGED << pc, mainVars, plotVars, frame, calls, ptat, avg_temp,
                    pixels, buffer, start_time, now, streamVars, histVars >>

\* ser.readline() raises SerialException.
ReadFail ==
    /\ pc = "parse"
    /\ InTime
    /\ Finally
    /\ UNCHANGED << plotVars, frame, calls, parseVars, now, streamVars,
                    histVars >>

\* Mutant of ParseTimeout: the call clears its buffer and stays in the loop.
ParseTimeoutNoReturn ==
    /\ pc = "parse"
    /\ ~InTime
    /\ buffer' = << >>
    /\ UNCHANGED << pc, mainVars, plotVars, frame, calls, ptat, avg_temp,
                    pixels, start_time, line, now, streamVars, histVars >>

\* Lines 61-62: the loop condition fails.
ParseTimeout ==
    /\ pc = "parse"
    /\ ~InTime
    /\ frame' = NoData
    /\ pc' = "got"
    /\ UNCHANGED << mainVars, plotVars, calls, parseVars, now, streamVars,
                    histVars >>

\* Time passes while the parser waits for the sensor: the clock is seen to
\* move between two frames and once the last frame has been sent, not in
\* the middle of a frame.
Tick ==
    /\ pc = "parse"
    /\ Paused
    /\ InTime
    /\ now' = now + ClockStep * TIMEOUT
    /\ UNCHANGED << pc, mainVars, plotVars, frame, calls, parseVars,
                    streamVars, histVars >>

\* ------------------------------------------------------------------------
\* visualize_heatmap (lines 64-81) and the rest of the loop body
\* ------------------------------------------------------------------------
Values(px) == UNION { { px[r][c] : c \in 1..COLS } : r \in 0..(ROWS - 1) }
Min(S) == CHOOSE x \in S : \A y \in S : x <= y
Max(S) == CHOOSE x \in S : \A y \in S : x >= y

\* The title's two numbers, as '.1f' prints them.
Title(p, a) == << Format1(Val(p)), Format1(Val(a)) >>

\* Mutant of Draw: an update leaves the color limits as they were.
DrawStaleLimits(p, a, px) ==
    [data |-> px,
     clim |-> IF shown.clim = None
              THEN << Min(Values(px)), Max(Values(px)) >>
              ELSE shown.clim,
     title |-> Title(p, a)]

\* What the image shows after visualize_heatmap(p, a, px, fig, ax, im):
\* imshow scales the colors to the data it is given, set_clim to the
\* limits it is given.
Draw(p, a, px) ==
    [data |-> px, clim |-> << Min(Values(px)), Max(Values(px)) >>,
     title |-> Title(p, a)]

\* Mutant of visualize_heatmap: every call creates an image and a colorbar.
visualize_heatmap_new(p, a, px) ==
    /\ images' = images + 1
    /\ im' = Some(images + 1)
    /\ colorbars' = colorbars + 1
    /\ shown' = Draw(p, a, px)
    /\ renders' = renders + 1

visualize_heatmap(p, a, px) ==
    /\ IF im = None
       THEN /\ images' = images + 1
            /\ im' = Some(images + 1)
            /\ colorbars' = colorbars + 1
       ELSE UNCHANGED << im, images, colorbars >>
    /\ shown' = Draw(p, a, px)
    /\ renders' = renders + 1

\* Mutant of AfterParse: without a frame the image handle is dropped.
AfterParseDropsHandle ==
    /\ pc = "got"
    /\ IF frame.pixels # None
       THEN visualize_heatmap(frame.ptat, frame.avg_temp, frame.pixels)
       ELSE im' = None /\ UNCHANGED << images, colorbars, shown, renders >>
    /\ pc' = "sleep"
    /\ UNCHANGED << mainVars, frame, calls, parseVars, now, streamVars,
                    histVars >>

\* Lines 94-98.
AfterParse ==
    /\ pc = "got"
    /\ IF frame.pixels # None
       THEN visualize_heatmap(frame.ptat, frame.avg_temp, frame.pixels)
       ELSE UNCHANGED plotVars
    /\ pc' = "sleep"
    /\ UNCHANGED << mainVars, frame, calls, parseVars, now, streamVars,
                    histVars >>

\* Line 99.
Sleep ==
    /\ pc = "sleep"
    /\ pc' = "loop"
    /\ UNCHANGED << mainVars, plotVars, frame, calls, parseVars, now,
                    streamVars, histVars >>

Next ==
    \/ OpenPort
    \/ OpenFail
    \/ Interrupt
    \/ CallParse
    \/ ReadData
    \/ ReadBlank
    \/ ReadFail
    \/ ParseTimeout
    \/ Tick
    \/ AfterParse
    \/ Sleep

Spec == Init /\ [][Next]_vars

\* A read returns within its timeout, the clock advances and the program
\* runs on.
LiveSpec ==
    /\ Init /\ [][Next]_vars
    /\ WF_streamVars(ReadLine)
    /\ WF_vars(Tick)
    /\ WF_vars(ParseTimeout)

\* ------------------------------------------------------------------------
\* Properties
\* ------------------------------------------------------------------------
\* The number a decimal text denotes, in hundredths.
Denotes(t) ==
    (IF t.neg THEN 0 - 1 ELSE 1)
        * (100 * t.ip
             + (IF Len(t.fd) >= 1 THEN 10 * t.fd[1] ELSE 0)
             + (IF Len(t.fd) >= 2 THEN t.fd[2] ELSE 0))

\* The c-th number (from 0) written on grid line l.
Written(l, c) == Denotes(GridTok(l.fid, l.row, c))

Returned == pc = "got" /\ frame # NoData

\* The call has read, in this order and nothing else: a well-formed PTAT
\* line, a well-formed Avg line, 32 well-formed grid lines.
ReadOneCleanFrame ==
    /\ pc \in {"parse", "got"}
    /\ ~was_reset
    /\ Len(buffer) = 2 + ROWS
    /\ PtatMatches(buffer[1])
    /\ AvgMatches(buffer[2])
    /\ \A i \in 3..(2 + ROWS) : GridMatches(buffer[i])

\* C1: when the lines read by one call are a well-formed PTAT line, a
\* well-formed Avg line and 32 well-formed grid lines, the call has returned
\* a frame whose ptat and avg_temp are the numbers written on the first two
\* lines and whose cell [r][c] is the c-th number of the r-th grid line.
C1_ExactFrame ==
    ReadOneCleanFrame =>
        /\ Returned
        /\ frame.ptat = Some(Denotes(buffer[1].tok))
        /\ frame.avg_temp = Some(Denotes(buffer[2].tok))
        /\ \A r \in 0..(ROWS - 1) : \A c \in 0..(COLS - 1) :
               frame.pixels[r][c + 1] = Written(buffer[r + 3], c)

C1_Witness == ReadOneCleanFrame /\ Returned

\* C2: a frame is returned only when, at the return, ptat and avg_temp are
\* known and the buffer holds at least 32 grid lines; a call that was sent
\* fewer than 32 grid lines ends with the no-data result only, and the
\* no-data result is given only once PARSE_TIMEOUT seconds have passed.
C2_NoFrameWithoutGrid ==
    /\ Returned =>
          /\ ptat # None /\ avg_temp # None
          /\ frame.ptat # None /\ frame.avg_temp # None
          /\ Len(grid_lines(buffer)) >= 32
    /\ (pc = "got" /\ grid_read < 32) => frame = NoData
    /\ (pc = "got" /\ frame = NoData) => now - start_time >= PARSE_TIMEOUT

C2_Witness ==
    /\ pc = "got" /\ frame = NoData
    /\ grid_read > 0 /\ grid_read < 32
    /\ ptat # None /\ avg_temp # None

\* C4: a returned grid has 32 rows of 32 numbers; row r holds the numbers of
\* the r-th grid line of the buffer, in buffer order, whatever follows the
\* 32nd grid line; no row is left as np.zeros made it.
C4_First32Lines ==
    Returned =>
        /\ DOMAIN frame.pixels = 0..31
        /\ \A r \in 0..31 :
              /\ Len(frame.pixels[r]) = 32
              /\ \A c \in 0..31 :
                    frame.pixels[r][c + 1] = Written(grid_lines(buffer)[r + 1], c)
              /\ frame.pixels[r] # Zeros[r]

C4_Witness == Returned /\ Len(grid_lines(buffer)) > 32

\* C3: every call of parse_uart_data ends: it returns a frame or the no-data
\* result (or the program is stopped by an exception meanwhile).
C3_Returns == (pc = "parse") ~> (pc \in {"got", "exited"})

\* A call has returned the no-data result from a stream of endless noise
\* that made it reset its buffer.
C3_Witness ==
    /\ pc = "got" /\ frame = NoData
    /\ StreamEnded /\ tail = "noise" /\ was_reset

\* A pass of the loop body that read a non-empty line.
ReadStep ==
    /\ pc = "parse"
    /\ << sframe, spos >>' # << sframe, spos >>

\* C5 as stated: whenever a pass of the loop leaves more than 10000
\* characters in the buffer, the buffer is cleared and the call goes on
\* reading.
C5_AlwaysCleared ==
    [][ (ReadStep /\ BufLen(buffer \o << CurLine >>) > 10000)
            => (buffer' = << >> /\ pc' = "parse") ]_vars

\* C5, amended: a pass that does not return a frame clears a buffer of more
\* than 10000 characters and keeps one of 10000 or fewer, and the call goes
\* on reading; a pass that returns a frame returns it with the buffer as it
\* is, however long.
C5_ClearedUnlessReturned ==
    [][ ReadStep =>
          LET buf1 == buffer \o << CurLine >>
          IN  IF pc' = "got"
              THEN frame' # NoData /\ buffer' = buf1
              ELSE /\ pc' = "parse"
                   /\ buffer' = IF BufLen(buf1) > 10000 THEN << >> ELSE buf1
      ]_vars

\* The buffer was cleared in this call and now holds exactly 10000
\* characters.
C5_Witness == pc = "parse" /\ was_reset /\ BufLen(buffer) = 10000

\* C6: once the program has ended, the port has been closed exactly when it
\* had been opened, and the plot windows are closed; before that, and when
\* the port was never opened, close has not been called.
C6_Cleanup ==
    /\ pc = "exited" =>
          /\ ~port_open
          /\ ~fig_open
          /\ close_calls = (IF ser_defined THEN 1 ELSE 0)
    /\ pc # "exited" => close_calls = 0 /\ port_open = ser_defined
    /\ pc # "start" => (ser_defined \/ pc = "exited")

C6_Witness == pc = "exited" /\ ser_defined /\ close_calls = 1 /\ calls > 0

\* C7: the renderer has been called once for every call of parse_uart_data
\* that returned a frame, with that frame; a no-data result leaves the image
\* handle and the image as they were and the loop goes on.
C7_RenderPerFrame ==
    /\ [](/\ pc \in {"sleep", "loop", "parse"} => renders = frames_got
          /\ (pc = "got" /\ frame = NoData) => renders = frames_got
          /\ (pc = "got" /\ frame # NoData) => renders + 1 = frames_got
          /\ (pc = "sleep" /\ frame # NoData) => shown.data = frame.pixels)
    /\ [][ (pc = "got" /\ frame = NoData) =>
              /\ UNCHANGED << im, images, colorbars, shown, renders >>
              /\ pc' \in {"sleep", "exited"} ]_vars
    /\ [][ (pc = "sleep" /\ pc' # "exited") => pc' = "loop" ]_vars

\* A second call of parse_uart_data is running after the first ended with
\* no data.
C7_Witness == pc = "parse" /\ calls = 2 /\ frames_got = 0 /\ renders = 0

\* C9: the image and its colorbar are created once, by the first render;
\* from then on the handle is that image and never None.
C9_CreatedOnce ==
    /\ renders = 0 => (im = None /\ images = 0 /\ colorbars = 0)
    /\ renders > 0 => (im = Some(1) /\ images = 1 /\ colorbars = 1)

C9_Witness == renders = 2 /\ images = 1 /\ im = Some(1)

IsMinOf(x, px) == x \in Values(px) /\ \A y \in Values(px) : x <= y
IsMaxOf(x, px) == x \in Values(px) /\ \A y \in Values(px) : x >= y

\* x (in tenths) is y (in hundredths) to one decimal place.
ShowsTenth(x, y) == 10 * x - y <= 5 /\ y - 10 * x <= 5

\* C10: after each call of visualize_heatmap the image shows the frame's
\* grid, its color limits are the grid's minimum and maximum, and the title
\* gives the frame's ptat and avg_temp.
C10_ShowsFrame ==
    (pc = "sleep" /\ frame # NoData) =>
        /\ shown.data = frame.pixels
        /\ IsMinOf(shown.clim[1], frame.pixels)
        /\ IsMaxOf(shown.clim[2], frame.pixels)
        /\ ShowsTenth(shown.title[1], Val(frame.ptat))
        /\ ShowsTenth(shown.title[2], Val(frame.avg_temp))

C10_Witness == pc = "sleep" /\ frame # NoData /\ renders = 2

\* The stream positions (frame, line) the current call has read so far.
ReadByCall ==
    { q \in UNION { {f} \X (0..(FrameLen(scen[f]) - 1)) : f \in 1..MaxFrames } :
        /\ \/ q[1] > call_from[1]
           \/ q[1] = call_from[1] /\ q[2] >= call_from[2]
        /\ \/ q[1] < sframe
           \/ q[1] = sframe /\ q[2] < spos }

Sent(q) == LineAt(scen[q[1]], q[1], q[2])

\* C11: a call of parse_uart_data starts with an empty buffer, no scalars
\* and a grid of zeros; each scalar and each row of a frame it returns is
\* written on a line the sensor sent after the call began; while a call
\* runs, the frame returned before it and the image drawn from it stay as
\* they were.
C11_FreshCall ==
    /\ [][ (pc = "loop" /\ pc' = "parse") =>
              /\ buffer' = << >>
              /\ ptat' = None /\ avg_temp' = None
              /\ pixels' = Zeros
              /\ frame' = frame ]_vars
    /\ [](Returned =>
            LET own == { Sent(q) : q \in ReadByCall }
            IN  /\ \E l \in own :
                      /\ PtatMatches(l)
                      /\ frame.ptat = Some(Denotes(l.tok))
                /\ \E l \in own :
                      /\ AvgMatches(l)
                      /\ frame.avg_temp = Some(Denotes(l.tok))
                /\ \A r \in 0..(ROWS - 1) : \E l \in own :
                      /\ GridMatches(l)
                      /\ \A c \in 1..COLS :
                            frame.pixels[r][c] = Written(l, c - 1))
    /\ [][ (pc = "parse" /\ pc' = "parse") =>
              UNCHANGED << frame, shown >> ]_vars

\* The second call returns a frame after the first call returned one.
C11_Witness == Returned /\ calls = 2 /\ frames_got = 2

\* C12: at the start of every pass of the read loop the buffer holds at
\* most 10000 characters; a step of a running call leaves the buffer as it
\* is, empties it, or appends to it the one non-empty line just read (and
\* its newline).
C12_BufferBound ==
    /\ [](pc = "parse" => BufLen(buffer) <= 10000)
    /\ [][ pc = "parse" =>
              \/ buffer' = buffer
              \/ buffer' = << >>
              \/ /\ Len(buffer') = Len(buffer) + 1
                 /\ SubSeq(buffer', 1, Len(buffer)) = buffer
                 /\ buffer'[Len(buffer')] = line'
                 /\ line'.len > 0
                 /\ BufLen(buffer') = BufLen(buffer) + line'.len + 1 ]_vars

\* A pass starts with lines of two frames in a buffer of more than 9000
\* characters.
C12_Witness ==
    /\ pc = "parse"
    /\ BufLen(buffer) > BUFFER_LIMIT - 1000
    /\ \E i, j \in 1..Len(buffer) :
          /\ GridMatches(buffer[i]) /\ GridMatches(buffer[j])
          /\ buffer[i].fid # buffer[j].fid

\* Every frame the sensor sends is well formed.
AllGood == \A i \in 1..MaxFrames : scen[i] = "good"

\* The returned frame is frame f as the sensor sent it: its PTAT, its
\* average, and its rows 0..31 in order.
IsFrame(f) ==
    /\ frame.ptat = Some(Denotes(PtatTok(f)))
    /\ frame.avg_temp = Some(Denotes(AvgTok(f)))
    /\ \A r \in 0..(ROWS - 1) : \A c \in 1..COLS :
          frame.pixels[r][c] = Denotes(GridTok(f, r, c - 1))

\* C13 as stated: on a stream of well-formed frames, wherever the call
\* began to read, a returned frame is one single transmitted frame: rows
\* 0..31 of that frame with that frame's own ptat and avg_temp.
C13_Coherent ==
    (AllGood /\ Returned) => \E f \in 1..MaxFrames : IsFrame(f)

\* C14 as stated: the scalars of a returned frame are written on a PTAT
\* line and an Avg line that are in the buffer when the call returns; so
\* after a reset of the buffer the call returns a frame only when both
\* lines have been read again.
C14_ScalarsInBuffer ==
    Returned =>
        /\ \E i \in 1..Len(buffer) :
              /\ PtatMatches(buffer[i])
              /\ frame.ptat = Some(Denotes(buffer[i].tok))
        /\ \E i \in 1..Len(buffer) :
              /\ AvgMatches(buffer[i])
              /\ frame.avg_temp = Some(Denotes(buffer[i].tok))

\* The places in the buffer of the lines with a PTAT (resp. Avg) match.
PtatPlaces == { i \in 1..Len(buffer) : PtatMatches(buffer[i]) }
AvgPlaces == { i \in 1..Len(buffer) : AvgMatches(buffer[i]) }

\* The least of a non-empty set of places.
Earliest(S) == CHOOSE i \in S : \A j \in S : i <= j

\* C15: when the call returns with several PTAT lines in the buffer, ptat
\* is the number written on the earliest of them, and likewise avg_temp
\* when there are several Avg lines.
C15_EarliestWins ==
    /\ (Returned /\ Cardinality(PtatPlaces) > 1) =>
          frame.ptat = Some(Denotes(buffer[Earliest(PtatPlaces)].tok))
    /\ (Returned /\ Cardinality(AvgPlaces) > 1) =>
          frame.avg_temp = Some(Denotes(buffer[Earliest(AvgPlaces)].tok))

\* The call returns with two PTAT lines and two Avg lines in the buffer,
\* and the numbers of the later ones differ from those of the earlier.
C15_Witness ==
    /\ Returned
    /\ \E i, j \in PtatPlaces :
          i < j /\ Denotes(buffer[i].tok) # Denotes(buffer[j].tok)
    /\ \E i, j \in AvgPlaces :
          i < j /\ Denotes(buffer[i].tok) # Denotes(buffer[j].tok)

\* After this read both scalars are known and the buffer holds at least 32
\* grid lines.
Completes(buf1) ==
    /\ ptat # None \/ \E i \in 1..Len(buf1) : PtatMatches(buf1[i])
    /\ avg_temp # None \/ \E i \in 1..Len(buf1) : AvgMatches(buf1[i])
    /\ Cardinality({ i \in 1..Len(buf1) : GridMatches(buf1[i]) }) >= ROWS

\* C16: a pass whose line completes a frame and takes the buffer above
\* 10000 characters returns the frame, with that line in the buffer; a pass
\* that empties the buffer returns nothing and goes on reading.
C16_CompleteBeforeOverflow ==
    [][ ReadStep =>
          LET buf1 == buffer \o << CurLine >>
          IN  /\ (Completes(buf1) /\ BufLen(buf1) > 10000) =>
                    /\ pc' = "got"
                    /\ frame' # NoData
                    /\ frames_got' = frames_got + 1
                    /\ buffer' = buf1
                    /\ was_reset' = was_reset
              /\ (buffer' = << >> \/ was_reset' # was_reset) =>
                    /\ pc' = "parse"
                    /\ UNCHANGED << frame, frames_got >>
      ]_vars

\* A frame has been returned by the pass that took the buffer above 10000
\* characters.
C16_Witness ==
    /\ Returned
    /\ BufLen(buffer) > BUFFER_LIMIT
    /\ BufLen(SubSeq(buffer, 1, Len(buffer) - 1)) <= BUFFER_LIMIT

\* C17: a pass of the loop whose read yields the empty line leaves the
\* buffer, both scalars and the grid as they were, returns nothing and
\* takes no line off the stream; the call is back at the loop condition.
C17_BlankReadNoEffect ==
    [][ (pc = "parse" /\ InTime /\ line' = Blank /\ pc' # "exited") =>
          /\ pc' = "parse"
          /\ UNCHANGED << buffer, ptat, avg_temp, pixels, start_time >>
          /\ UNCHANGED << frame, frames_got, was_reset, streamVars >>
      ]_vars

\* The last read of a running call was empty; the call has an Avg value
\* and lines in its buffer.
C17_Witness ==
    /\ pc = "parse"
    /\ line = Blank
    /\ buffer # << >>
    /\ avg_temp # None

====
